---- MODULE Spec2Model ----
(***************************************************************************)
(* Model of src/server.mjs (KunAI service bot): the in-memory session map, *)
(* the retrying backend call wrapper, context summarisation, the chat turn *)
(* handler and the reset endpoint, plus the pure text functions that       *)
(* detect completion, extract ticket fields and strip machine tags.        *)
(*                                                                         *)
(* Texts are sequences of chunks.  A chunk is either a plain character     *)
(* ("X"), a whitespace character (" "), a whole tag ("<su>", "</ticket>")  *)
(* or one half of the completion marker ("[[ORDER_" / "COMPLETED]]"); the  *)
(* text a sequence stands for is the concatenation of its chunks.  With    *)
(* these chunks the marker occurs in the concatenation exactly where its   *)
(* two halves are adjacent, and a tag occurs exactly where its chunk is.   *)
(***************************************************************************)
EXTENDS Integers, Sequences, FiniteSets, TLC

\* ------------------------------------------------------------------ bounds
MaxTextLen == 4

\* --------------------------------------------------------------- alphabet
Alphabet ==
  { "X", " ", "[[ORDER_", "[[order_", "COMPLETED]]",
    "<ticket>", "</ticket>", "<su>", "<SU>", "</su>",
    "<de>", "</de>", "<ca>", "</ca>" }

\* String.prototype.toLowerCase / the regex "i" flag, chunk by chunk.
Lower(c) ==
  CASE c = "[[ORDER_"    -> "[[order_"
    [] c = "COMPLETED]]" -> "completed]]"
    [] c = "<SU>"        -> "<su>"
    [] c = "X"           -> "x"
    [] OTHER             -> c

\* \s of the regexes and the characters String.prototype.trim removes.
IsSpace(c) == c \in {" ", "\n"}

\* JavaScript null (no chunk of any text is "null").
Null == <<"null">>

RECURSIVE TrimLeft(_)
TrimLeft(s) ==
  IF s # <<>> /\ IsSpace(Head(s)) THEN TrimLeft(Tail(s)) ELSE s

RECURSIVE TrimRight(_)
TrimRight(s) ==
  IF s # <<>> /\ IsSpace(s[Len(s)])
    THEN TrimRight(SubSeq(s, 1, Len(s) - 1))
    ELSE s

\* String.prototype.trim
Trim(s) == TrimRight(TrimLeft(s))

\* Number of leading whitespace chunks of s (a greedy \s* at the start of s).
RECURSIVE LeadSpaces(_)
LeadSpaces(s) ==
  IF s # <<>> /\ IsSpace(Head(s)) THEN 1 + LeadSpaces(Tail(s)) ELSE 0

\* The marker literal, case-insensitively, at position p of s.
MarkerAt(s, p) ==
  /\ p >= 1
  /\ p + 1 <= Len(s)
  /\ Lower(s[p]) = "[[order_"
  /\ Lower(s[p + 1]) = "completed]]"

\* Smallest index in from..Len(s) whose chunk is tag (case-insensitive); 0 if none.
RECURSIVE IndexOfTag(_, _, _)
IndexOfTag(s, tag, from) ==
  IF from > Len(s) THEN 0
  ELSE IF Lower(s[from]) = tag THEN from
  ELSE IndexOfTag(s, tag, from + 1)

\* Mutant: the marker is looked for as written, in upper case only.
isOrderCompletedCaseSensitive(reply) ==
  \E p \in 1..Len(reply) :
    /\ p + 1 <= Len(reply)
    /\ reply[p] = "[[ORDER_"
    /\ reply[p + 1] = "COMPLETED]]"

\* reply.toLowerCase().includes("[[order_completed]]")
isOrderCompleted(reply) ==
  \E p \in 1..Len(reply) :
    /\ p + 1 <= Len(reply)
    /\ Lower(reply[p]) = "[[order_"
    /\ Lower(reply[p + 1]) = "completed]]"

\* Length of the match of /\s*\[\[ORDER_COMPLETED\]\]\s*/i anchored at the
\* start of s; 0 when there is no match there (a match has length >= 2).
MarkerMatchLen(s) ==
  LET k == LeadSpaces(s)
  IN IF MarkerAt(s, k + 1)
       THEN k + 2 + LeadSpaces(SubSeq(s, k + 3, Len(s)))
       ELSE 0

\* reply.replace(/\s*\[\[ORDER_COMPLETED\]\]\s*/gi, ""): one left-to-right
\* pass; each match is dropped and the scan resumes after it.
RECURSIVE ReplaceAllMarkers(_)
ReplaceAllMarkers(s) ==
  IF s = <<>> THEN <<>>
  ELSE LET m == MarkerMatchLen(s)
       IN IF m > 0
            THEN ReplaceAllMarkers(SubSeq(s, m + 1, Len(s)))
            ELSE <<Head(s)>> \o ReplaceAllMarkers(Tail(s))

stripOrderCompletedTag(reply) == Trim(ReplaceAllMarkers(reply))

\* reply.replace(/<ticket>[\s\S]*?<\/ticket>/i, ""): the first opening tag
\* that has a closing tag after it, up to the nearest such closing tag; no
\* "g" flag, so only that one block goes.
ReplaceFirstTicket(s) ==
  LET p == IndexOfTag(s, "<ticket>", 1)
      q == IF p = 0 THEN 0 ELSE IndexOfTag(s, "</ticket>", p + 1)
  IN IF q = 0 THEN s
     ELSE SubSeq(s, 1, p - 1) \o SubSeq(s, q + 1, Len(s))

stripTicketBlock(reply) == Trim(ReplaceFirstTicket(reply))

\* Mutant: the match runs to the last closing tag (a greedy [\s\S]*).
GetTagGreedy(text, open, close) ==
  LET p == IndexOfTag(text, open, 1)
      C == { q \in 1..Len(text) : q > p /\ Lower(text[q]) = close }
  IN IF p = 0 \/ C = {} THEN Null
     ELSE Trim(SubSeq(text, p + 1, (CHOOSE q \in C : \A r \in C : r <= q) - 1))

\* get(tag) of extractTicketFields: new RegExp(`<${tag}>([\s\S]*?)<\/${tag}>`, "i")
\* matched against text; match[1].trim(), or null without a match.
GetTag(text, open, close) ==
  LET p == IndexOfTag(text, open, 1)
      q == IF p = 0 THEN 0 ELSE IndexOfTag(text, close, p + 1)
  IN IF q = 0 THEN Null ELSE Trim(SubSeq(text, p + 1, q - 1))

extractTicketFields(text) ==
  [ summary     |-> GetTag(text, "<su>", "</su>"),
    description |-> GetTag(text, "<de>", "</de>"),
    category    |-> GetTag(text, "<ca>", "</ca>") ]

\* Mutant: the raw reply is kept as the visible reply.
AnalyzeNoStrip(assistantText) ==
  [ completed |-> isOrderCompleted(assistantText),
    fields    |-> extractTicketFields(assistantText),
    cleaned   |-> assistantText ]

\* Steps 3 and 4 of handleChatMessage on the raw assistant text.
Analyze(assistantText) ==
  [ completed |-> isOrderCompleted(assistantText),
    fields    |-> extractTicketFields(assistantText),
    cleaned   |-> stripTicketBlock(stripOrderCompletedTag(assistantText)) ]


\* ------------------------------------------------------------ more bounds
\* Gateway calls that end in an error, and backend responses without text,
\* over a whole run (what leaves a trace in a session's history).
MaxFaults == 1
\* Largest retry budget a direct caller of callOpenAIWithRetry passes.
MaxRetries == 4
\* Requests the server has in flight at once.
MaxInFlight == 2

\* ------------------------------------------------------ program constants
MAX_HISTORY_MESSAGES_BEFORE_SUMMARY == 20
ChatRetries == 3
SummaryRetries == 3
BackoffUnitMs == 1000

systemPrompt == <<"You are KunAI">>
SummaryPrefix == <<"Conversation summary so far:", "\n">>
SummaryFallback == <<"Summary of the previous conversation so far (details omitted).">>
SorryText == <<"Sorry, I had trouble answering that.">>
DefaultSession == "default-session"
JiraKey == "KUN-1"

\* ------------------------------------------------------------ input sets
\* req.body.sessionId: a client id, or absent.
NoId == "undefined"
SessionIds == {"s1"}
Keys == {"s1", DefaultSession}
UserMessages == { <<"hi">> }

PlainReply == <<"X", " ">>
TicketReply ==
  << "X", " ", "<ticket>", "<su>", "X", "</su>", "<de>", "X", " ", "X", "</de>",
     "<ca>", "X", "</ca>", "</ticket>", " ", "[[ORDER_", "COMPLETED]]" >>
\* response.output_text of the chat call ("" when the backend gives no text)
ReplyTexts == { <<>>, PlainReply, TicketReply }
\* response.output_text of the summary call
SummaryTexts == { <<>>, <<"S">> }

\* Replies that follow the ticket protocol of systemPrompt: text, the three
\* tagged fields in order, then the marker.
Contents == { <<>>, <<"X">>, <<" ", "X", " ", "X", " ">> }
Pres == { <<>>, <<"X", " ">>, <<"<ticket>">> }
Mids == { <<>>, <<" ">>, <<"</ticket>", " ">> }
MarkerHeads == { "[[ORDER_", "[[order_" }
Block(x, y, z) ==
  <<"<su>">> \o x \o <<"</su>", "<de>">> \o y \o <<"</de>", "<ca>">> \o z
    \o <<"</ca>">>
WellFormed(pre, x, y, z, mid, m) ==
  pre \o Block(x, y, z) \o mid \o <<m, "COMPLETED]]">>
BlockTexts ==
  { WellFormed(pre, x, y, z, mid, m) :
      pre \in Pres, x \in Contents, y \in Contents, z \in Contents,
      mid \in Mids, m \in MarkerHeads }

TextInputs ==
  UNION { [1..n -> Alphabet] : n \in 0..MaxTextLen } \cup ReplyTexts
    \cup BlockTexts

Slots == 1..MaxInFlight
ArrayIds == 1..(Cardinality(Keys) + MaxInFlight)

VARIABLES
  sessions,   \* the Map: key -> id of the stored array, 0 when the key is absent
  heap,       \* array id -> the array's messages (<<>>: no such array)
  turns,      \* slot -> the handleChatMessage / gateway invocation in flight;
              \* `effects` lists its calls of sendOrderEmail and
              \* createJiraIssue and how each one settled, `overlapped`
              \* tells whether another invocation on its key was in flight
              \* at some time of its own flight
  faults,     \* failed gateway calls and empty responses so far
  resp,       \* what the step just taken returned or threw to its caller
  gwOut,      \* how the callOpenAIWithRetry call that just ended, ended
  tx          \* text under analysis (text specification only)

vars == <<sessions, heap, turns, faults, resp, gwOut, tx>>

Msg(r, c) == [role |-> r, content |-> c]
SystemMsg == Msg("system", systemPrompt)
NoFields == [summary |-> Null, description |-> Null, category |-> Null]

NoResp == [kind |-> "none"]
NoCall == [outcome |-> "none"]
NoTx == [stage |-> "none"]

Idle ==
  [ pc |-> "idle", sid |-> "", message |-> <<>>, context |-> 0,
    label |-> "", phase |-> "", retries |-> 0, i |-> 0, err |-> 0,
    attempts |-> 0, delays |-> <<>>,
    completed |-> FALSE, fields |-> NoFields, cleaned |-> <<>>,
    effects |-> <<>>, overlapped |-> FALSE ]

\* ------------------------------------------------------------- the heap
\* Arrays some variable of the program still refers to: the values of the
\* Map and the `context` locals of the invocations in flight (tt: turns).
Live(ss, tt) ==
  ({ ss[k] : k \in Keys } \cup { tt[t].context : t \in Slots }) \ {0}

\* A fresh array: the lowest id nothing refers to.
Alloc(ss, tt) ==
  CHOOSE a \in ArrayIds \ Live(ss, tt) :
    \A b \in ArrayIds \ Live(ss, tt) : a <= b

\* Arrays nothing refers to any more are gone.
Collect(hh, ss, tt) ==
  [ a \in ArrayIds |-> IF a \in Live(ss, tt) THEN hh[a] ELSE <<>> ]

\* ----------------------------------------------------- callOpenAIWithRetry
\* Entry of callOpenAIWithRetry(payload, retries, label) for invocation rec:
\* the loop starts at i = 0 and, if 0 < retries, invokes the backend.
StartCall(rec, label, retries) ==
  [ rec EXCEPT !.pc = "gateway", !.label = label, !.retries = retries,
               !.i = 0, !.err = 0,
               !.phase = IF 0 < retries THEN "call" ELSE "exit",
               !.attempts = IF 0 < retries THEN 1 ELSE 0, !.delays = <<>> ]

\* Mutant: every error is retried while attempts are left.
ShouldRetryAnyError(status, i, retries) == i < retries - 1

\* The catch block's test: retry after a 429 unless this was the last attempt.
ShouldRetry(status, i, retries) == status = 429 /\ i < retries - 1

\* Mutant: the same delay before every retry.
DelayMsConstant(i) == BackoffUnitMs

\* const delayMs = (i + 1) * 1000
DelayMs(i) == (i + 1) * BackoffUnitMs

CallEnded(t, rec, outcome, value) ==
  [ slot |-> t, label |-> rec.label, retries |-> rec.retries,
    attempts |-> rec.attempts, delays |-> rec.delays, i |-> rec.i,
    outcome |-> outcome, value |-> value ]

\* ------------------------------------------------------ the session store
\* Mutant: a new session starts empty.
FreshContextEmpty == <<>>

\* The array a new session starts with.
FreshContext == <<SystemMsg>>

\* The array a session is set to once its ticket is created.
ResetContext == <<SystemMsg>>

\* Mutant: the latest message is kept after the summary.
NewContextKeepsLast(context, summaryText) ==
  << context[1], Msg("assistant", SummaryPrefix \o summaryText),
     context[Len(context)] >>

\* newContext of summarizeContextIfNeeded.
NewContext(context, summaryText) ==
  << context[1], Msg("assistant", SummaryPrefix \o summaryText) >>

\* getContextForSession(sessionId): the store after the call, as
\* [sessions, heap]; the array returned is its sessions[sid].
getContextForSession(ss, hh, tt, sid) ==
  IF ss[sid] = 0
    THEN LET a == Alloc(ss, tt)
         IN [ sessions |-> [ss EXCEPT ![sid] = a],
              heap     |-> [hh EXCEPT ![a] = FreshContext] ]
    ELSE [ sessions |-> ss, heap |-> hh ]

\* What getContextForSession(sid) logs on store ss: the creation of the
\* session when the key is absent, nothing otherwise.
Created(ss, sid) ==
  IF ss[sid] = 0 THEN [kind |-> "created", sid |-> sid] ELSE NoResp

\* Mutant: two messages too many are left out of the count.
NeedsSummaryLate(context) ==
  Len(context) - 2 > MAX_HISTORY_MESSAGES_BEFORE_SUMMARY

\* Mutant: the limit is tested with >=.
NeedsSummaryOffByOne(context) ==
  Len(context) - 1 >= MAX_HISTORY_MESSAGES_BEFORE_SUMMARY

\* The test of summarizeContextIfNeeded on the stored array.
NeedsSummary(context) ==
  Len(context) - 1 > MAX_HISTORY_MESSAGES_BEFORE_SUMMARY

\* Mutant: the handler works on a copy of the stored array.
BeginChatOnCopy(ss, hh, tt, rec) ==
  LET st == getContextForSession(ss, hh, tt, rec.sid)
      a  == st.sessions[rec.sid]
      b  == Alloc(st.sessions, tt)
  IN [ sessions |-> st.sessions,
       heap     |-> [st.heap EXCEPT ![b] = Append(st.heap[a], Msg("user", rec.message))],
       turn     |-> StartCall([rec EXCEPT !.context = b], "chat", ChatRetries) ]

\* Lines 398-434 of handleChatMessage for invocation rec on store (ss, hh):
\* fetch (or create) the array, push the user message, start the chat call.
BeginChat(ss, hh, tt, rec) ==
  LET st == getContextForSession(ss, hh, tt, rec.sid)
      a  == st.sessions[rec.sid]
  IN [ sessions |-> st.sessions,
       heap     |-> [st.heap EXCEPT ![a] = Append(@, Msg("user", rec.message))],
       turn     |-> StartCall([rec EXCEPT !.context = a], "chat", ChatRetries) ]


\* ---------------------------------------------------------------- actions
\* What one step other than a text step leaves alone.
Quiet == tx' = tx

\* A handler waiting on an already settled promise runs before any I/O
\* callback or timer: the event loop drains the microtask queue first.
Settled == \E t \in Slots : turns[t].pc = "resume"
Macrotask == ~Settled

\* The lowest free slot takes the next request.
FreeSlot(t) ==
  /\ Macrotask
  /\ turns[t].pc = "idle"
  /\ \A u \in Slots : u < t => turns[u].pc # "idle"

\* No invocation in flight works on key k.
KeyIdle(k) == \A t \in Slots : turns[t].pc = "idle" \/ turns[t].sid # k

\* handleChatMessage(message, sessionId), up to its first suspension: the
\* session is made if absent and summarizeContextIfNeeded is entered; a
\* stored array over the limit starts the summary call, any other makes it
\* return at once, and the handler waits on its promise.
HandleChatMessage(t, sessionId, message) ==
  /\ FreeSlot(t)
  /\ LET sid == IF sessionId = NoId THEN DefaultSession ELSE sessionId
         busy == { u \in Slots : turns[u].pc # "idle" /\ turns[u].sid = sid }
         rec == [Idle EXCEPT !.sid = sid, !.message = message,
                             !.overlapped = (busy # {})]
         st  == getContextForSession(sessions, heap, turns, sid)
         a   == st.sessions[sid]
     IN /\ sessions' = st.sessions
        /\ heap' = st.heap
        /\ turns' = [ u \in Slots |->
             IF u = t
               THEN IF NeedsSummary(st.heap[a])
                      THEN StartCall([rec EXCEPT !.context = a], "summary",
                                     SummaryRetries)
                      ELSE [rec EXCEPT !.pc = "resume"]
               ELSE IF u \in busy THEN [turns[u] EXCEPT !.overlapped = TRUE]
               ELSE turns[u] ]
        /\ resp' = Created(sessions, sid)
  /\ gwOut' = NoCall
  /\ UNCHANGED faults
  /\ Quiet

\* The summary call returns `text`: summarizeContextIfNeeded replaces the
\* stored array by newContext and returns.
SummaryReturns(t, text) ==
  /\ Macrotask
  /\ turns[t].pc = "gateway" /\ turns[t].label = "summary" /\ turns[t].phase = "call"
  /\ text = <<>> => faults < MaxFaults
  /\ LET rec == turns[t]
         summaryText == IF text = <<>> THEN SummaryFallback ELSE text
         a   == Alloc(sessions, turns)
         ss  == [sessions EXCEPT ![rec.sid] = a]
         hh  == [heap EXCEPT ![a] = NewContext(heap[rec.context], summaryText)]
         tt  == [turns EXCEPT ![t] = [rec EXCEPT !.pc = "resume", !.phase = "",
                                                 !.context = 0]]
     IN /\ sessions' = ss
        /\ turns' = tt
        /\ heap' = Collect(hh, ss, tt)
        /\ gwOut' = CallEnded(t, rec, "return", text)
  /\ faults' = IF text = <<>> THEN faults + 1 ELSE faults
  /\ resp' = NoResp
  /\ Quiet

\* handleChatMessage resumes after `await summarizeContextIfNeeded(sid)`:
\* it fetches (or makes) the array, pushes the user message onto it and
\* starts the chat call.
ResumeChat(t) ==
  /\ turns[t].pc = "resume"
  /\ LET b  == BeginChat(sessions, heap, turns, turns[t])
         tt == [turns EXCEPT ![t] = b.turn]
     IN /\ sessions' = b.sessions
        /\ turns' = tt
        /\ heap' = Collect(b.heap, b.sessions, tt)
  /\ resp' = Created(sessions, turns[t].sid)
  /\ gwOut' = NoCall
  /\ UNCHANGED faults
  /\ Quiet

\* The chat call returns `text`: detection, extraction and stripping on the
\* raw text, the cleaned reply pushed onto `context`; a completed order goes
\* on to the email, anything else returns.
ChatReturns(t, text) ==
  /\ Macrotask
  /\ turns[t].pc = "gateway" /\ turns[t].label = "chat" /\ turns[t].phase = "call"
  /\ text = <<>> => faults < MaxFaults
  /\ LET rec == turns[t]
         assistantText == IF text = <<>> THEN SorryText ELSE text
         an == Analyze(assistantText)
         hh == [heap EXCEPT ![rec.context] =
                  Append(@, Msg("assistant", an.cleaned))]
         tt == [turns EXCEPT ![t] =
                  IF an.completed
                    THEN [rec EXCEPT !.pc = "email", !.phase = "",
                                      !.completed = TRUE, !.fields = an.fields,
                                      !.cleaned = an.cleaned,
                                      !.effects = <<"email">>]
                    ELSE Idle]
     IN /\ turns' = tt
        /\ heap' = Collect(hh, sessions, tt)
        /\ resp' = IF an.completed THEN NoResp
                   ELSE [ kind |-> "return", slot |-> t, sid |-> rec.sid,
                          reply |-> an.cleaned, orderCompleted |-> FALSE,
                          jiraIssueKey |-> "null", effects |-> <<>>,
                          context |-> rec.context,
                          overlapped |-> rec.overlapped ]
        /\ gwOut' = CallEnded(t, rec, "return", text)
  /\ faults' = IF text = <<>> THEN faults + 1 ELSE faults
  /\ UNCHANGED sessions
  /\ Quiet

\* The kind of a backend error: what the catch blocks tell apart.
ErrorKind(status) == IF status = 429 THEN "RateLimited" ELSE "Other"

\* The catch block of POST /api/chat: the HTTP answer to an error of
\* handleChatMessage.
ApiChatError(status) ==
  IF status = 429
    THEN [status |-> 429, error |-> "rate_limited"]
    ELSE [status |-> 500, error |-> "Server error"]

\* Mutant: a failed summary call is swallowed and the turn goes on.
ThrowsSwallowed(t, status) ==
  LET rec == turns[t]
      tt  == [turns EXCEPT ![t] =
                IF rec.label = "summary"
                  THEN [rec EXCEPT !.pc = "resume", !.phase = "", !.context = 0]
                  ELSE Idle]
  IN /\ turns' = tt
     /\ heap' = Collect(heap, sessions, tt)
     /\ resp' = IF rec.label \in {"direct", "summary"} THEN NoResp
                ELSE [ kind |-> "throw", slot |-> t, sid |-> rec.sid,
                       status |-> status, label |-> rec.label,
                       api |-> ApiChatError(status) ]
     /\ gwOut' = CallEnded(t, rec, "throw", status)
     /\ UNCHANGED sessions

\* Mutant: a failed chat call leaves an apology in the history.
ThrowsWithApology(t, status) ==
  LET rec == turns[t]
      tt  == [turns EXCEPT ![t] = Idle]
      hh  == IF rec.label = "chat"
               THEN [heap EXCEPT ![rec.context] =
                       Append(@, Msg("assistant", SorryText))]
               ELSE heap
  IN /\ turns' = tt
     /\ heap' = Collect(hh, sessions, tt)
     /\ resp' = IF rec.label = "direct" THEN NoResp
                ELSE [ kind |-> "throw", slot |-> t, sid |-> rec.sid,
                       status |-> status, label |-> rec.label,
                       api |-> ApiChatError(status) ]
     /\ gwOut' = CallEnded(t, rec, "throw", status)
     /\ UNCHANGED sessions

\* Mutant: the error of a gateway call is wrapped in an error of the
\* wrapper's own (status 503) before it is thrown.
ThrowsWrapped(t, status) ==
  LET rec == turns[t]
      tt  == [turns EXCEPT ![t] = Idle]
  IN /\ turns' = tt
     /\ heap' = Collect(heap, sessions, tt)
     /\ resp' = IF rec.label = "direct" THEN NoResp
                ELSE [ kind |-> "throw", slot |-> t, sid |-> rec.sid,
                       status |-> 503, label |-> rec.label,
                       api |-> ApiChatError(503) ]
     /\ gwOut' = CallEnded(t, rec, "throw", status)
     /\ UNCHANGED sessions

\* The error of a gateway call leaves callOpenAIWithRetry and, uncaught,
\* summarizeContextIfNeeded and handleChatMessage.
Throws(t, status) ==
  LET rec == turns[t]
      tt  == [turns EXCEPT ![t] = Idle]
  IN /\ turns' = tt
     /\ heap' = Collect(heap, sessions, tt)
     /\ resp' = IF rec.label = "direct" THEN NoResp
                ELSE [ kind |-> "throw", slot |-> t, sid |-> rec.sid,
                       status |-> status, label |-> rec.label,
                       api |-> ApiChatError(status) ]
     /\ gwOut' = CallEnded(t, rec, "throw", status)
     /\ UNCHANGED sessions

\* The backend answers the attempt with status 429: the wrapper sleeps
\* (i + 1) * 1000 ms if an attempt is left, and rethrows otherwise.
BackendRateLimited(t) ==
  /\ Macrotask
  /\ turns[t].pc = "gateway" /\ turns[t].phase = "call"
  /\ IF ShouldRetry(429, turns[t].i, turns[t].retries)
       THEN /\ turns' = [turns EXCEPT ![t].phase = "sleep", ![t].err = 429,
                                      ![t].delays = Append(@, DelayMs(turns[t].i))]
            /\ resp' = NoResp
            /\ gwOut' = NoCall
            /\ UNCHANGED <<sessions, heap, faults>>
       ELSE /\ faults < MaxFaults
            /\ faults' = faults + 1
            /\ Throws(t, 429)
  /\ Quiet

\* The backend fails the attempt with another error (status 500 here).
BackendError(t) ==
  /\ Macrotask
  /\ turns[t].pc = "gateway" /\ turns[t].phase = "call"
  /\ IF ShouldRetry(500, turns[t].i, turns[t].retries)
       THEN /\ turns' = [turns EXCEPT ![t].phase = "sleep", ![t].err = 500,
                                      ![t].delays = Append(@, DelayMs(turns[t].i))]
            /\ resp' = NoResp
            /\ gwOut' = NoCall
            /\ UNCHANGED <<sessions, heap, faults>>
       ELSE /\ faults < MaxFaults
            /\ faults' = faults + 1
            /\ Throws(t, 500)
  /\ Quiet

\* The backoff timer fires: i++ and, the loop test passing, the next attempt.
RetryTimer(t) ==
  /\ Macrotask
  /\ turns[t].pc = "gateway" /\ turns[t].phase = "sleep"
  /\ LET rec == turns[t]
         more == rec.i + 1 < rec.retries
     IN turns' = [turns EXCEPT ![t] =
          [rec EXCEPT !.i = rec.i + 1,
                      !.phase = IF more THEN "call" ELSE "exit",
                      !.attempts = IF more THEN rec.attempts + 1 ELSE rec.attempts]]
  /\ resp' = NoResp
  /\ gwOut' = NoCall
  /\ UNCHANGED <<sessions, heap, faults>>
  /\ Quiet

EmailOutcome(ok) == IF ok THEN "email ok" ELSE "email failed"
JiraOutcome(ok) == IF ok THEN "jira ok" ELSE "jira failed"

\* Mutant: a failed email is sent again.
EmailRetried(t, ok) ==
  /\ Macrotask
  /\ turns[t].pc = "email"
  /\ UNCHANGED faults
  /\ turns' = [turns EXCEPT ![t].pc = IF ok THEN "jira" ELSE "email",
                            ![t].effects =
                              @ \o <<EmailOutcome(ok), IF ok THEN "jira" ELSE "email">>]
  /\ resp' = NoResp
  /\ gwOut' = NoCall
  /\ UNCHANGED <<sessions, heap>>
  /\ Quiet

\* sendOrderEmail settles; its failure is caught and logged.  createJiraIssue
\* is called next either way.
EmailSettles(t, ok) ==
  /\ Macrotask
  /\ turns[t].pc = "email"
  /\ UNCHANGED faults
  /\ turns' = [turns EXCEPT ![t].pc = "jira",
                            ![t].effects = @ \o <<EmailOutcome(ok), "jira">>]
  /\ resp' = NoResp
  /\ gwOut' = NoCall
  /\ UNCHANGED <<sessions, heap>>
  /\ Quiet

\* Mutant: the session is reset whether or not the ticket was created.
JiraSettlesAlwaysResets(t, ok) ==
  /\ Macrotask
  /\ turns[t].pc = "jira"
  /\ UNCHANGED faults
  /\ LET rec == turns[t]
         tt  == [turns EXCEPT ![t] = Idle]
         a   == Alloc(sessions, turns)
         ss  == [sessions EXCEPT ![rec.sid] = a]
         hh  == [heap EXCEPT ![a] = ResetContext]
     IN /\ sessions' = ss
        /\ turns' = tt
        /\ heap' = Collect(hh, ss, tt)
        /\ resp' = [ kind |-> "return", slot |-> t, sid |-> rec.sid,
                     reply |-> rec.cleaned, orderCompleted |-> rec.completed,
                     jiraIssueKey |-> IF ok THEN JiraKey ELSE "null",
                     effects |-> Append(rec.effects, JiraOutcome(ok)),
                     context |-> rec.context, overlapped |-> rec.overlapped ]
  /\ gwOut' = NoCall
  /\ Quiet

\* createJiraIssue settles: on success the key is kept and the session is
\* set to a fresh array; its failure is caught and logged.  The turn returns.
JiraSettles(t, ok) ==
  /\ Macrotask
  /\ turns[t].pc = "jira"
  /\ UNCHANGED faults
  /\ LET rec == turns[t]
         tt  == [turns EXCEPT ![t] = Idle]
         a   == Alloc(sessions, turns)
         ss  == IF ok THEN [sessions EXCEPT ![rec.sid] = a] ELSE sessions
         hh  == IF ok THEN [heap EXCEPT ![a] = ResetContext] ELSE heap
     IN /\ sessions' = ss
        /\ turns' = tt
        /\ heap' = Collect(hh, ss, tt)
        /\ resp' = [ kind |-> "return", slot |-> t, sid |-> rec.sid,
                     reply |-> rec.cleaned, orderCompleted |-> rec.completed,
                     jiraIssueKey |-> IF ok THEN JiraKey ELSE "null",
                     effects |-> Append(rec.effects, JiraOutcome(ok)),
                     context |-> rec.context, overlapped |-> rec.overlapped ]
  /\ gwOut' = NoCall
  /\ Quiet

\* The test of /api/reset: an id was sent and the map has it.
ResetDeletes(sessionId) ==
  sessionId # NoId /\ sessionId \in Keys /\ sessions[sessionId] # 0

\* Mutant: the reset answers ok and deletes nothing.
ResetNoDelete(sessionId) ==
  /\ Macrotask
  /\ sessions' = sessions
  /\ heap' = heap
  /\ resp' = [ kind |-> "reset", sessionId |-> sessionId, ok |-> TRUE,
               deleted |-> FALSE ]
  /\ gwOut' = NoCall
  /\ UNCHANGED <<turns, faults>>
  /\ Quiet

\* Mutant: a reset of a present key clears the whole map.
ResetClearsAll(sessionId) ==
  /\ Macrotask
  /\ LET ss == IF ResetDeletes(sessionId) THEN [k \in Keys |-> 0] ELSE sessions
     IN /\ sessions' = ss
        /\ heap' = Collect(heap, ss, turns)
  /\ resp' = [ kind |-> "reset", sessionId |-> sessionId, ok |-> TRUE,
               deleted |-> ResetDeletes(sessionId) ]
  /\ gwOut' = NoCall
  /\ UNCHANGED <<turns, faults>>
  /\ Quiet

\* POST /api/reset with body.sessionId = sessionId; `deleted` tells whether
\* sessions.delete ran.
Reset(sessionId) ==
  /\ Macrotask
  /\ LET ss == IF ResetDeletes(sessionId)
                 THEN [sessions EXCEPT ![sessionId] = 0]
                 ELSE sessions
     IN /\ sessions' = ss
        /\ heap' = Collect(heap, ss, turns)
  /\ resp' = [ kind |-> "reset", sessionId |-> sessionId, ok |-> TRUE,
               deleted |-> ResetDeletes(sessionId) ]
  /\ gwOut' = NoCall
  /\ UNCHANGED <<turns, faults>>
  /\ Quiet

\* callOpenAIWithRetry(payload, retries) called on its own with a retry
\* budget of the caller's choice; with retries = 0 the loop body never runs
\* and the function returns undefined.
DirectCall(t, retries) ==
  /\ FreeSlot(t)
  /\ LET rec == StartCall(Idle, "direct", retries)
     IN IF rec.phase = "exit"
          THEN /\ turns' = turns
               /\ gwOut' = CallEnded(t, rec, "undefined", <<>>)
          ELSE /\ turns' = [turns EXCEPT ![t] = rec]
               /\ gwOut' = NoCall
  /\ resp' = NoResp
  /\ UNCHANGED <<sessions, heap, faults>>
  /\ Quiet

\* The backend answers a direct call's attempt: the response is returned.
DirectReturns(t, text) ==
  /\ Macrotask
  /\ turns[t].pc = "gateway" /\ turns[t].label = "direct" /\ turns[t].phase = "call"
  /\ turns' = [turns EXCEPT ![t] = Idle]
  /\ gwOut' = CallEnded(t, turns[t], "return", text)
  /\ resp' = NoResp
  /\ UNCHANGED <<sessions, heap, faults>>
  /\ Quiet

\* Steps 3 and 4 of handleChatMessage applied to the text tx.raw.
AnalyzeText ==
  /\ tx.stage = "raw"
  /\ LET an == Analyze(tx.raw)
     IN tx' = [ stage |-> "analyzed", raw |-> tx.raw, completed |-> an.completed,
                fields |-> an.fields, cleaned |-> an.cleaned ]
  /\ UNCHANGED <<sessions, heap, turns, faults, resp, gwOut>>

\* extractTicketFields applied to the cleaned reply.
ExtractAgain ==
  /\ tx.stage = "analyzed"
  /\ tx' = [ stage |-> "extracted", raw |-> tx.raw, completed |-> tx.completed,
             fields |-> tx.fields, cleaned |-> tx.cleaned,
             refields |-> extractTicketFields(tx.cleaned) ]
  /\ UNCHANGED <<sessions, heap, turns, faults, resp, gwOut>>

\* ---------------------------------------------------------- specification
Init ==
  /\ sessions = [k \in Keys |-> 0]
  /\ heap = [a \in ArrayIds |-> <<>>]
  /\ turns = [t \in Slots |-> Idle]
  /\ faults = 0
  /\ resp = NoResp
  /\ gwOut = NoCall
  /\ tx = NoTx

ResetIds == SessionIds \cup {NoId}

Microtasks == \E t \in Slots : ResumeChat(t)

\* A request arrives; requests on one session key are served one at a time.
Requests ==
  \E t \in Slots, id \in SessionIds, m \in UserMessages :
    /\ KeyIdle(IF id = NoId THEN DefaultSession ELSE id)
    /\ HandleChatMessage(t, id, m)

\* A suspended invocation is resumed by the backend, a timer or a side effect.
Progress ==
  \/ \E t \in Slots, text \in SummaryTexts : SummaryReturns(t, text)
  \/ \E t \in Slots, text \in ReplyTexts : ChatReturns(t, text)
  \/ \E t \in Slots : BackendRateLimited(t)
  \/ \E t \in Slots : BackendError(t)
  \/ \E t \in Slots : RetryTimer(t)
  \/ \E t \in Slots, ok \in BOOLEAN : EmailSettles(t, ok)
  \/ \E t \in Slots, ok \in BOOLEAN : JiraSettles(t, ok)

Resets ==
  \E id \in ResetIds :
    /\ id \in Keys => KeyIdle(id)
    /\ Reset(id)

Next == Microtasks \/ Requests \/ Progress \/ Resets

Spec == Init /\ [][Next]_vars

\* The server of Spec, one invocation at a time, and callOpenAIWithRetry
\* called on its own with every retry budget 0..MaxRetries.  The wrapper
\* neither reads nor writes the store, so the direct calls are made on the
\* empty store.
AllIdle == \A t \in Slots : turns[t].pc = "idle"
NoSessions == \A k \in Keys : sessions[k] = 0

DirectCalls ==
  \E t \in Slots, n \in 0..MaxRetries :
    /\ AllIdle
    /\ NoSessions
    /\ DirectCall(t, n)

NextGateway ==
  \/ Microtasks
  \/ AllIdle /\ Requests
  \/ Progress
  \/ Resets
  \/ DirectCalls
  \/ \E t \in Slots, text \in ReplyTexts : DirectReturns(t, text)

SpecGateway == Init /\ [][NextGateway]_vars

\* The server with two clients, one that sends the id "s1" and one that
\* sends no id (and so shares "default-session"), their requests served one
\* after the other by a backend that answers; a reset may name any key or
\* none.
ClientIds == SessionIds \cup {NoId}
ResetIdsKeys == Keys \cup {NoId}

RequestsKeys ==
  \E t \in Slots, id \in ClientIds, m \in UserMessages :
    /\ AllIdle
    /\ HandleChatMessage(t, id, m)

ResetsKeys ==
  \E id \in ResetIdsKeys :
    /\ AllIdle
    /\ Reset(id)

\* The backend answers every call with a text, at once or after rate-limited
\* attempts.
ProgressAnswered ==
  \/ \E t \in Slots, text \in SummaryTexts \ {<<>>} : SummaryReturns(t, text)
  \/ \E t \in Slots, text \in ReplyTexts \ {<<>>} : ChatReturns(t, text)
  \/ \E t \in Slots : ShouldRetry(429, turns[t].i, turns[t].retries)
                          /\ BackendRateLimited(t)
  \/ \E t \in Slots : RetryTimer(t)
  \/ \E t \in Slots, ok \in BOOLEAN : EmailSettles(t, ok)
  \/ \E t \in Slots, ok \in BOOLEAN : JiraSettles(t, ok)

NextKeys == Microtasks \/ RequestsKeys \/ ProgressAnswered \/ ResetsKeys

SpecKeys == Init /\ [][NextKeys]_vars

\* The server without the one-at-a-time service of Spec: a request may
\* arrive while another on the same key is in flight, once the stored
\* session has reached the summary limit.  The backend answers every call
\* at its first attempt (a retry only lengthens a suspension).
AtLimit(k) ==
  /\ sessions[k] # 0
  /\ Len(heap[sessions[k]]) - 1 >= MAX_HISTORY_MESSAGES_BEFORE_SUMMARY

RequestsRace ==
  \E t \in Slots, id \in SessionIds, m \in UserMessages :
    /\ KeyIdle(id) \/ AtLimit(id)
    /\ HandleChatMessage(t, id, m)

ProgressRace ==
  \/ \E t \in Slots, text \in SummaryTexts \ {<<>>} : SummaryReturns(t, text)
  \/ \E t \in Slots, text \in ReplyTexts \ {<<>>} : ChatReturns(t, text)
  \/ \E t \in Slots, ok \in BOOLEAN : EmailSettles(t, ok)
  \/ \E t \in Slots, ok \in BOOLEAN : JiraSettles(t, ok)

NextRace == Microtasks \/ RequestsRace \/ ProgressRace \/ Resets

SpecRace == Init /\ [][NextRace]_vars

\* The server of Spec with /api/reset answered whenever it arrives, also
\* while a turn on the key is suspended.
ResetsAnyTime == \E id \in ResetIds : Reset(id)

NextReset == Microtasks \/ Requests \/ Progress \/ ResetsAnyTime

SpecReset == Init /\ [][NextReset]_vars

\* The text functions on every text of TextInputs.
InitText ==
  /\ sessions = [k \in Keys |-> 0]
  /\ heap = [a \in ArrayIds |-> <<>>]
  /\ turns = [t \in Slots |-> Idle]
  /\ faults = 0
  /\ resp = NoResp
  /\ gwOut = NoCall
  /\ tx \in { [stage |-> "raw", raw |-> r] : r \in TextInputs }

NextText == AnalyzeText \/ ExtractAgain

SpecText == InitText /\ [][NextText]_vars


\* ------------------------------------------------------------------ claims
Stored(k) == heap[sessions[k]]
Last(q) == q[Len(q)]
SystemMessage == [role |-> "system", content |-> systemPrompt]
UserMessage(m) == [role |-> "user", content |-> m]
AssistantMessage(c) == [role |-> "assistant", content |-> c]
\* The text the handlers use for a backend response without text.
ChatText(v) == IF v = <<>> THEN SorryText ELSE v
SummaryText(v) == IF v = <<>> THEN SummaryFallback ELSE v
ContainsMarker(s) == \E p \in 1..Len(s) : MarkerAt(s, p)
HasTicketBlock(s) ==
  \E p \in 1..Len(s), q \in 1..Len(s) :
    p < q /\ Lower(s[p]) = "<ticket>" /\ Lower(s[q]) = "</ticket>"
Sanitized(raw) == stripTicketBlock(stripOrderCompletedTag(raw))
\* Slot t's gateway call with the given label ends in this step.
CallEnds(t, label, outcome) ==
  /\ turns[t].pc = "gateway"
  /\ turns[t].label = label
  /\ gwOut'.outcome = outcome
  /\ gwOut'.slot = t

\* C1: every session stored in the map is a non-empty sequence whose first
\* message is the system message with the fixed system instruction.
C1_SystemFirst ==
  \A k \in Keys :
    sessions[k] # 0 => Len(Stored(k)) >= 1 /\ Stored(k)[1] = SystemMessage

\* C1 witness: a stored session that was compacted and then grew again.
C1_Witness ==
  \E k \in Keys :
    /\ sessions[k] # 0
    /\ Len(Stored(k)) >= 4
    /\ Stored(k)[2].role = "assistant"
    /\ Stored(k)[2].content # <<"X">>

\* C2: when the summary call of a compaction succeeds (the session held
\* more than 20 non-system messages), the stored session becomes exactly
\* the system message followed by one assistant message: the fixed prefix
\* followed by the summary text.
C2_CompactionShape ==
  [][ \A t \in Slots :
        CallEnds(t, "summary", "return") =>
          LET k == turns[t].sid
          IN /\ Len(heap[turns[t].context]) - 1 > 20
             /\ sessions'[k] # 0
             /\ heap'[sessions'[k]] =
                  << SystemMessage,
                     AssistantMessage(<<"Conversation summary so far:", "\n">>
                                        \o SummaryText(gwOut'.value)) >> ]_vars

\* C2 witness: a compaction has just replaced the stored session.
C2_Witness ==
  \E t \in Slots :
    /\ turns[t].pc = "resume"
    /\ gwOut.outcome = "return"
    /\ gwOut.label = "summary"
    /\ gwOut.value = <<"S">>
    /\ Len(Stored(turns[t].sid)) = 2

\* C3: a turn that starts on a session with at most 20 non-system messages
\* makes no gateway call for compaction and leaves the store as it is; the
\* turn then appends its user message to that same stored sequence.
C3_NoCompactionAtOrBelowLimit ==
  [][ \A t \in Slots :
        /\ ( /\ turns[t].pc = "idle"
             /\ turns'[t].pc # "idle"
             /\ turns'[t].label # "direct"
             /\ sessions[turns'[t].sid] # 0
             /\ Len(Stored(turns'[t].sid)) - 1 <= 20 )
           => /\ turns'[t].pc = "resume"
              /\ turns'[t].attempts = 0
              /\ gwOut' = NoCall
              /\ sessions' = sessions
              /\ heap' = heap
        /\ ( turns[t].pc = "resume" /\ gwOut = NoCall )
           => /\ sessions[turns[t].sid] # 0
              /\ sessions' = sessions
              /\ heap'[sessions[turns[t].sid]] =
                   Append(Stored(turns[t].sid), UserMessage(turns[t].message)) ]_vars

\* C3 witness: a turn started on a session of exactly 20 non-system
\* messages and compaction returned without a call.
C3_Witness ==
  \E t \in Slots :
    /\ turns[t].pc = "resume"
    /\ gwOut = NoCall
    /\ sessions[turns[t].sid] # 0
    /\ Len(Stored(turns[t].sid)) - 1 = 20

\* C4: while the summary call of a compaction has not succeeded the stored
\* session is untouched, and when the call fails the error leaves the turn:
\* nothing is replaced, no user message is appended, no chat call is made.
C4_SummaryFailureLeavesSession ==
  [][ \A t \in Slots :
        ( /\ turns[t].pc = "gateway"
          /\ turns[t].label = "summary"
          /\ gwOut'.outcome # "return" )
        => LET k == turns[t].sid
           IN /\ sessions[k] # 0
              /\ sessions' = sessions
              /\ heap'[sessions[k]] = heap[sessions[k]]
              /\ gwOut'.outcome = "throw" =>
                   /\ turns'[t] = Idle
                   /\ resp'.kind = "throw"
                   /\ resp'.slot = t
                   /\ resp'.status = gwOut'.value ]_vars

\* C4 witness: a summary call was rate limited on all its attempts and the
\* session still holds more than 20 non-system messages.
C4_Witness ==
  /\ resp.kind = "throw"
  /\ resp.label = "summary"
  /\ resp.status = 429
  /\ sessions[resp.sid] # 0
  /\ Len(Stored(resp.sid)) - 1 > 20

\* C5: when the chat call fails (an error other than a rate limit, or a
\* rate limit on all 3 attempts) the error leaves the turn, the stored
\* session ends with the turn's user message, no assistant message is
\* appended, and the turn reaches neither the email, the ticket nor a reset.
C5_ChatFailureKeepsUserMessage ==
  [][ \A t \in Slots :
        CallEnds(t, "chat", "throw") =>
          LET k == turns[t].sid
          IN /\ resp'.kind = "throw"
             /\ resp'.slot = t
             /\ resp'.status = gwOut'.value
             /\ \/ resp'.status = 500
                \/ resp'.status = 429 /\ gwOut'.attempts = 3
             /\ sessions[k] # 0
             /\ sessions' = sessions
             /\ heap'[sessions[k]] = heap[sessions[k]]
             /\ Last(heap'[sessions[k]]) = UserMessage(turns[t].message)
             /\ turns'[t] = Idle ]_vars

\* C5 witness: a chat call was rate limited three times and the stored
\* session ends with the user message.
C5_Witness ==
  /\ resp.kind = "throw"
  /\ resp.label = "chat"
  /\ resp.status = 429
  /\ gwOut.attempts = 3
  /\ sessions[resp.sid] # 0
  /\ Last(Stored(resp.sid)).role = "user"

\* Delays 1000, 2000, ... before the retries of a call.
Backoff(n) == [j \in 1..n |-> j * 1000]

C6_State(tt, g, r) ==
  /\ \A t \in Slots :
       tt[t].pc = "gateway" /\ tt[t].retries >= 1 =>
         /\ tt[t].phase \in {"call", "sleep"}
         /\ tt[t].attempts = tt[t].i + 1
         /\ tt[t].attempts <= tt[t].retries
         /\ tt[t].phase = "call" => tt[t].delays = Backoff(tt[t].i)
         /\ tt[t].phase = "sleep" =>
              /\ tt[t].err = 429
              /\ tt[t].i < tt[t].retries - 1
              /\ tt[t].delays = Backoff(tt[t].i + 1)
  /\ g.outcome \in {"return", "throw"} /\ g.retries >= 1 =>
       /\ g.attempts >= 1
       /\ g.attempts <= g.retries
       /\ g.delays = Backoff(g.attempts - 1)
       /\ \A a \in 1..Len(g.delays), b \in 1..Len(g.delays) :
            a < b => g.delays[a] < g.delays[b]
  /\ ( /\ g.outcome = "return"
       /\ g.label = "chat"
       /\ g.attempts = 3 )
     => \/ /\ r.kind = "return"
           /\ r.reply = Sanitized(ChatText(g.value))
        \/ /\ tt[g.slot].pc = "email"
           /\ tt[g.slot].cleaned = Sanitized(ChatText(g.value))

C6_Step ==
  \A t \in Slots :
    /\ ( /\ turns[t].pc = "gateway"
         /\ turns'[t].pc = "gateway"
         /\ turns'[t].label = turns[t].label
         /\ turns'[t].attempts # turns[t].attempts )
       => /\ turns[t].phase = "sleep"
          /\ turns[t].err = 429
          /\ turns[t].i < turns[t].retries - 1
          /\ Last(turns[t].delays) = (turns[t].i + 1) * 1000
          /\ turns'[t].attempts = turns[t].attempts + 1
    /\ ( turns[t].pc = "gateway" /\ gwOut'.outcome = "return" /\ gwOut'.slot = t )
       => /\ turns[t].phase = "call"
          /\ gwOut'.attempts = turns[t].attempts
          /\ gwOut'.delays = turns[t].delays
          /\ turns'[t].pc = "gateway" => turns'[t].label # turns[t].label

\* C6: a gateway call with retry budget n >= 1 invokes the backend at least
\* once and at most n times; a further attempt follows only a 429 failure of
\* attempt i < n - 1, after a delay of (i + 1) * 1000 ms, so the delays are
\* 1000, 2000, ... and strictly increasing; the first successful attempt's
\* response is returned with no further invocation; with budget 3, two 429
\* failures and a success make the chat turn succeed on the 3rd response.
C6_RetryPolicy == [][C6_State(turns', gwOut', resp') /\ C6_Step]_vars

\* C6 witness: a chat call succeeded on its 3rd attempt after delays of
\* 1000 and 2000 ms and the turn returned.
C6_Witness ==
  /\ gwOut.outcome = "return"
  /\ gwOut.label = "chat"
  /\ gwOut.attempts = 3
  /\ gwOut.delays = <<1000, 2000>>
  /\ resp.kind = "return"

C7_State(tt, g) ==
  /\ \A t \in Slots :
       tt[t].pc = "gateway" /\ tt[t].phase = "sleep" =>
         tt[t].err = 429 /\ tt[t].i < tt[t].retries - 1
  /\ g.outcome = "throw" =>
       /\ g.value \in {429, 500}
       /\ g.value = 429 => g.attempts = g.retries
       /\ Len(g.delays) = g.attempts - 1
  /\ g.outcome # "none" /\ g.retries >= 1 =>
       g.outcome \in {"return", "throw"}

C7_Step ==
  \A t \in Slots :
    ( turns[t].pc = "gateway" /\ gwOut'.outcome = "throw" /\ gwOut'.slot = t )
    => /\ turns[t].phase = "call"
       /\ gwOut'.attempts = turns[t].attempts
       /\ gwOut'.delays = turns[t].delays
       /\ turns'[t] = Idle
       /\ turns[t].label # "direct" =>
            resp'.kind = "throw" /\ resp'.status = gwOut'.value

\* C7: an error other than a rate limit is never retried and a rate limit
\* on the last permitted attempt is not retried either: the error leaves the
\* call on the attempt where it occurs, with no delay and no further
\* invocation; a call with budget n >= 1 ends in a response or in an error.
C7_NoRetryOfOtherErrors == [][C7_State(turns', gwOut') /\ C7_Step]_vars

\* C7 witness: the 2nd attempt of a call failed with a 500 after one retry.
C7_Witness ==
  /\ gwOut.outcome = "throw"
  /\ gwOut.value = 500
  /\ gwOut.attempts = 2
  /\ gwOut.delays = <<1000>>

\* C8: a turn whose chat call succeeds with a reply without the marker
\* extends the stored session, as it stands after the optional compaction,
\* by the user message and then the assistant message with the sanitized
\* reply; it returns terminal = false and does not reset the session.
C8_NonTerminalTurnAppendsTwo ==
  [][ \A t \in Slots :
        LET k == turns[t].sid
        IN /\ turns[t].pc = "resume" =>
                /\ sessions[k] # 0
                /\ sessions' = sessions
                /\ heap'[sessions[k]] =
                     Append(Stored(k), UserMessage(turns[t].message))
           /\ ( /\ turns[t].pc = "gateway"
                /\ turns[t].label = "chat"
                /\ gwOut'.outcome # "return" )
              => /\ sessions[k] # 0
                 /\ sessions' = sessions
                 /\ heap'[sessions[k]] = Stored(k)
           /\ ( /\ CallEnds(t, "chat", "return")
                /\ ~ContainsMarker(ChatText(gwOut'.value)) )
              => /\ sessions[k] # 0
                 /\ sessions' = sessions
                 /\ Last(Stored(k)) = UserMessage(turns[t].message)
                 /\ heap'[sessions[k]] =
                      Append(Stored(k),
                             AssistantMessage(Sanitized(ChatText(gwOut'.value))))
                 /\ resp'.kind = "return"
                 /\ resp'.slot = t
                 /\ resp'.reply = Sanitized(ChatText(gwOut'.value))
                 /\ resp'.orderCompleted = FALSE
                 /\ turns'[t] = Idle ]_vars

\* C8 witness: after a compaction a turn returned a plain reply and the
\* stored session is system, summary, user, assistant.
C8_Witness ==
  /\ resp.kind = "return"
  /\ resp.orderCompleted = FALSE
  /\ gwOut.outcome = "return"
  /\ gwOut.value = PlainReply
  /\ sessions[resp.sid] # 0
  /\ Len(Stored(resp.sid)) = 4
  /\ Stored(resp.sid)[2].role = "assistant"
  /\ Stored(resp.sid)[3] = UserMessage(<<"hi">>)
  /\ Stored(resp.sid)[4] = AssistantMessage(<<"X">>)

\* C9: for every raw backend text the cleaned reply (marker stripping, then
\* ticket-block stripping) holds no completion marker in any casing and no
\* complete <ticket>...</ticket> block.
C9_CleanedHasNoMarkerNoBlock ==
  tx.stage \in {"analyzed", "extracted"} =>
    ~ContainsMarker(tx.cleaned) /\ ~HasTicketBlock(tx.cleaned)

\* C10: for every raw backend text, field extraction on the cleaned reply
\* yields summary = description = category = null.
C10_ExtractionOnCleanedIsNull ==
  tx.stage = "extracted" =>
    /\ tx.refields.summary = Null
    /\ tx.refields.description = Null
    /\ tx.refields.category = Null

\* Positions of the chunks of s that are the tag, in any casing.
TagPositions(s, tag) == { p \in 1..Len(s) : Lower(s[p]) = tag }
Least(S) == CHOOSE x \in S : \A y \in S : x <= y
\* The content between the first opening tag and the nearest closing tag
\* after it, without its surrounding whitespace; null without such a pair.
FieldOf(s, open, close) ==
  LET P == TagPositions(s, open)
  IN IF P = {} THEN Null
     ELSE LET Q == { q \in TagPositions(s, close) : q > Least(P) }
          IN IF Q = {} THEN Null
             ELSE Trim(SubSeq(s, Least(P) + 1, Least(Q) - 1))

HasMarkerLiteral(s) ==
  \E p \in 1..Len(s) :
    /\ p < Len(s)
    /\ s[p] \in {"[[ORDER_", "[[order_"}
    /\ s[p + 1] = "COMPLETED]]"
\* Some opening tag of s, in any casing, has its closing tag after it.
HasPair(s, opens, close) ==
  \E p \in 1..Len(s), q \in 1..Len(s) :
    p < q /\ s[p] \in opens /\ s[q] = close
NoCompletePair(s) ==
  /\ ~HasPair(s, {"<su>", "<SU>"}, "</su>")
  /\ ~HasPair(s, {"<de>"}, "</de>")
  /\ ~HasPair(s, {"<ca>"}, "</ca>")

\* C12: the terminal flag of a raw text is true iff the text holds the
\* marker in some casing, whatever the extraction finds: a text with the
\* marker and no complete tag pair is terminal with summary, description and
\* category all null (a result, not an error).
C12_TerminalIffMarker ==
  tx.stage \in {"analyzed", "extracted"} =>
    /\ tx.completed <=> HasMarkerLiteral(tx.raw)
    /\ HasMarkerLiteral(tx.raw) /\ NoCompletePair(tx.raw) =>
         /\ tx.completed
         /\ tx.fields = [ summary |-> <<"null">>, description |-> <<"null">>,
                          category |-> <<"null">> ]

\* C12 witness: a text with a lower-case marker after an opening tag that
\* is never closed was analysed: terminal, all fields null.
C12_Witness ==
  /\ tx.stage = "analyzed"
  /\ tx.raw = <<"<su>", "X", "[[order_", "COMPLETED]]">>
  /\ tx.completed
  /\ tx.fields.summary = Null
  /\ tx.fields.description = Null
  /\ tx.fields.category = Null

\* Slot t takes a request in this step: handleChatMessage runs up to its
\* first suspension, and its first statement is getContextForSession(sid).
Enters(t) ==
  /\ turns[t].pc = "idle"
  /\ turns'[t].pc # "idle"
  /\ turns'[t].label # "direct"

\* C13: getContextForSession on a key absent from the map (never seen, or
\* deleted by a reset, after any history) makes the key's session exactly
\* one message, the system message; on a present key it changes neither map
\* nor arrays and hands out the stored array.  So a reset of k followed at
\* once by getContextForSession(k) leaves k with the system message alone.
C13_GetOrCreate ==
  [][ \A t \in Slots :
        /\ Enters(t) =>
             LET k == turns'[t].sid
             IN /\ sessions[k] = 0 =>
                     /\ sessions'[k] # 0
                     /\ heap'[sessions'[k]] = <<SystemMessage>>
                     /\ \A j \in Keys \ {k} : sessions'[j] = sessions[j]
                     /\ resp' = [kind |-> "created", sid |-> k]
                /\ sessions[k] # 0 =>
                     /\ sessions' = sessions
                     /\ heap' = heap
                     /\ resp' = NoResp
                /\ resp.kind = "reset" /\ resp.sessionId = k =>
                     /\ sessions'[k] # 0
                     /\ heap'[sessions'[k]] = <<SystemMessage>>
        /\ turns[t].pc = "resume" /\ sessions[turns[t].sid] # 0 =>
             /\ sessions' = sessions
             /\ turns'[t].context = sessions[turns[t].sid]
             /\ SubSeq(heap'[turns'[t].context], 1, Len(Stored(turns[t].sid)))
                  = Stored(turns[t].sid) ]_vars

\* C13 witness: a key that had a history (a backend fault is part of it)
\* and was deleted is created again with the system message alone.
C13_Witness ==
  /\ resp.kind = "created"
  /\ faults = 1
  /\ sessions[resp.sid] # 0
  /\ Stored(resp.sid) = <<SystemMessage>>

\* The session stored under key j is the same after the step.
SameSession(j) ==
  /\ sessions'[j] = sessions[j]
  /\ sessions[j] # 0 => heap'[sessions[j]] = heap[sessions[j]]

\* C14: a reset always answers ok; a reset of an absent key, or without an
\* id, leaves every session as it is; a reset of a present key removes that
\* key and leaves every other session as it is; a second reset of the same
\* key right after changes nothing more.
C14_ResetFrame ==
  [][ resp'.kind = "reset" =>
        LET id == resp'.sessionId
        IN /\ resp'.ok = TRUE
           /\ turns' = turns
           /\ (id = NoId \/ sessions[id] = 0) =>
                /\ ~resp'.deleted
                /\ \A j \in Keys : SameSession(j)
           /\ (id # NoId /\ sessions[id] # 0) =>
                /\ resp'.deleted
                /\ sessions'[id] = 0
                /\ \A j \in Keys \ {id} : SameSession(j)
           /\ (resp.kind = "reset" /\ resp.sessionId = id) =>
                /\ ~resp'.deleted
                /\ \A j \in Keys : SameSession(j) ]_vars

\* C14 witness: the reset of a present key removed it while the other
\* client's session, with its history, stayed.
C14_Witness ==
  /\ resp.kind = "reset"
  /\ resp.sessionId = "s1"
  /\ resp.deleted
  /\ sessions["s1"] = 0
  /\ sessions[DefaultSession] # 0
  /\ Len(Stored(DefaultSession)) >= 3

\* The stored session of key k shrinks to the system message alone, or the
\* key goes, in this step.
Forgets(k) ==
  /\ sessions[k] # 0
  /\ Len(Stored(k)) > 1
  /\ sessions'[k] # 0 => heap'[sessions'[k]] = <<SystemMessage>>

\* C15: a terminal turn resets its session to the system message alone when
\* createJiraIssue succeeds and only then; when it fails the session keeps
\* its whole history, the cleaned assistant reply last; a failed email is
\* followed by the ticket call all the same (and so by the reset if that
\* succeeds); a turn whose reply is not terminal resets nothing.
C15_ResetOnlyAfterTicket ==
  [][ \A t \in Slots :
        LET k == turns[t].sid
        IN /\ turns[t].pc = "jira" /\ turns'[t] # turns[t] =>
                /\ resp'.kind = "return"
                /\ Last(resp'.effects) = "jira ok" =>
                     /\ sessions'[k] # 0
                     /\ heap'[sessions'[k]] = <<SystemMessage>>
                /\ Last(resp'.effects) = "jira failed" =>
                     /\ sessions' = sessions
                     /\ sessions[k] # 0
                     /\ heap'[sessions[k]] = Stored(k)
                     /\ Len(Stored(k)) >= 3
                     /\ Last(Stored(k)) = AssistantMessage(turns[t].cleaned)
           /\ turns[t].pc = "email" /\ turns'[t] # turns[t] =>
                /\ turns'[t].pc = "jira"
                /\ Last(turns'[t].effects) = "jira"
                /\ sessions' = sessions
                /\ heap' = heap
           /\ ( /\ turns[t].pc \notin {"idle", "jira"}
                /\ turns[t].label # "summary" )
              => ~Forgets(k)
           /\ ( CallEnds(t, "chat", "return") /\ resp'.kind = "return" ) =>
                /\ ~resp'.orderCompleted
                /\ sessions' = sessions
                /\ Len(heap'[sessions[k]]) = Len(Stored(k)) + 1 ]_vars

\* C15 witness: the email failed, the ticket was created and the session
\* of the terminal turn is the system message alone.
C15_Witness ==
  /\ resp.kind = "return"
  /\ resp.orderCompleted
  /\ resp.effects = <<"email", "email failed", "jira", "jira ok">>
  /\ resp.jiraIssueKey = JiraKey
  /\ sessions[resp.sid] # 0
  /\ Stored(resp.sid) = <<SystemMessage>>

C17_NoLossWithoutOverlap ==
  [][ \A t \in Slots :
        LET k == turns[t].sid
        IN /\ ( CallEnds(t, "summary", "return") /\ ~turns[t].overlapped ) =>
                /\ turns[t].context = sessions[k]
                /\ heap'[sessions'[k]][2].content =
                     <<"Conversation summary so far:", "\n">>
                       \o SummaryText(gwOut'.value)
           /\ ( CallEnds(t, "chat", "return") /\ ~turns[t].overlapped ) =>
                /\ turns[t].context = sessions[k]
                /\ sessions' = sessions
                /\ Last(Stored(k)) = UserMessage(turns[t].message)
                /\ heap'[sessions[k]] =
                     Append(Stored(k),
                            AssistantMessage(Sanitized(ChatText(gwOut'.value))))
           /\ ( /\ turns[t].pc \in {"gateway", "email", "jira"}
                /\ turns[t].label # "direct"
                /\ resp'.kind = "return"
                /\ resp'.slot = t
                /\ ~resp'.overlapped )
              => resp'.context = sessions[k] ]_vars

\* C17 witness: two turns on one key overlapped, both have returned a reply
\* and no call has failed; the compaction of one replaced the array the
\* other went on writing to, so the stored session holds a single exchange
\* after the summary and the last turn's array is not the stored one.
C17_Witness ==
  /\ AllIdle
  /\ faults = 0
  /\ resp.kind = "return"
  /\ ~resp.orderCompleted
  /\ resp.overlapped
  /\ sessions[resp.sid] # 0
  /\ resp.context # sessions[resp.sid]
  /\ Len(Stored(resp.sid)) = 4
  /\ Stored(resp.sid)[2].content = SummaryPrefix \o <<"S">>
  /\ Stored(resp.sid)[3] = UserMessage(<<"hi">>)
  /\ Stored(resp.sid)[4] = AssistantMessage(<<"X">>)

\* Turn t is in flight and the array it took from the map is not the one
\* stored under its key any more.  With one turn per key at a time only a
\* reset of the key during the turn's flight brings this about, and the
\* turn's array is then the history from before that reset.
ResetInFlight(t) ==
  /\ turns[t].pc # "idle"
  /\ turns[t].context # 0
  /\ turns[t].context # sessions[turns[t].sid]

\* C18: after a reset of key k, the writes of a turn on k that was in
\* flight at the reset put nothing from before the reset under k: the turn
\* leaves the map's entry for k alone or sets it to the system message
\* alone, and it does not touch the array stored under k since.
C18_NoPreResetContent ==
  [][ \A t \in Slots :
        ( ResetInFlight(t) /\ turns'[t] # turns[t] ) =>
          LET k == turns[t].sid
          IN /\ \/ sessions'[k] = sessions[k]
                \/ heap'[sessions'[k]] = <<SystemMessage>>
             /\ sessions[k] # 0 => heap'[sessions[k]] = heap[sessions[k]] ]_vars

\* C19: with requests on a key served one at a time, every stored session
\* holds at most 22 messages besides the system message (23 in all), and
\* the array a chat call is made with holds at most 21 besides the system
\* message, whatever turns succeeded, failed or completed an order before.
C19_ContextBounded ==
  /\ \A k \in Keys :
       sessions[k] # 0 => Len(Stored(k)) <= 23 /\ Len(Stored(k)) - 1 <= 22
  /\ \A t \in Slots :
       turns[t].pc = "gateway" /\ turns[t].label = "chat" =>
         /\ heap[turns[t].context][1] = SystemMessage
         /\ Len(heap[turns[t].context]) - 1 <= 21

\* C19 witness: a turn has just returned and left its session with 22
\* messages besides the system message, one backend fault among the turns
\* before it.
C19_Witness ==
  /\ resp.kind = "return"
  /\ faults = 1
  /\ sessions[resp.sid] # 0
  /\ Len(Stored(resp.sid)) - 1 = 22

\* The calls of a side effect among the entries of a turn's effects.
Calls(e, name) == Cardinality({ j \in 1..Len(e) : e[j] = name })

C20_State(tt, r, hh) ==
  /\ \A t \in Slots :
       /\ tt[t].pc \in {"email", "jira"} <=> tt[t].effects # <<>>
       /\ tt[t].effects # <<>> =>
            /\ tt[t].completed
            /\ Calls(tt[t].effects, "email") = 1
            /\ Calls(tt[t].effects, "jira") <= 1
            /\ tt[t].effects[1] = "email"
            /\ Last(hh[tt[t].context]) = AssistantMessage(tt[t].cleaned)
  /\ r.kind = "return" =>
       /\ r.effects # <<>> <=> r.orderCompleted
       /\ r.orderCompleted =>
            /\ Calls(r.effects, "email") = 1
            /\ Calls(r.effects, "jira") = 1
            /\ r.effects[2] \in {"email ok", "email failed"}
            /\ r.effects[4] \in {"jira ok", "jira failed"}
  /\ r.kind = "throw" => r.label \in {"summary", "chat"}

C20_Step ==
  \A t \in Slots :
    LET k == turns[t].sid
    IN /\ CallEnds(t, "chat", "return") =>
            LET raw == ChatText(gwOut'.value)
            IN /\ turns'[t].pc = "email" <=> ContainsMarker(raw)
               /\ Last(heap'[sessions[k]]) = AssistantMessage(Sanitized(raw))
               /\ turns'[t].pc = "email" =>
                    /\ turns'[t].effects = <<"email">>
                    /\ turns'[t].cleaned = Sanitized(raw)
       /\ turns[t].pc = "email" /\ turns'[t] # turns[t] =>
            /\ turns'[t].pc = "jira"
            /\ turns'[t].cleaned = turns[t].cleaned
            /\ resp'.kind = "none"
       /\ turns[t].pc = "jira" /\ turns'[t] # turns[t] =>
            /\ turns'[t] = Idle
            /\ resp'.kind = "return"
            /\ resp'.slot = t
            /\ resp'.reply = turns[t].cleaned
            /\ resp'.orderCompleted = TRUE

\* C20: sendOrderEmail and createJiraIssue are called only in a turn whose
\* raw reply holds the marker, each once at most, and only after the cleaned
\* assistant message has been pushed onto the session; whether they succeed
\* or fail the turn goes on and returns the cleaned reply with
\* orderCompleted = true, never an error.
C20_SideEffects == [][C20_State(turns', resp', heap') /\ C20_Step]_vars

\* C20 witness: a terminal turn whose email and ticket both failed has
\* returned its cleaned reply, which is the last message of its session.
C20_Witness ==
  /\ resp.kind = "return"
  /\ resp.orderCompleted
  /\ resp.effects = <<"email", "email failed", "jira", "jira failed">>
  /\ resp.jiraIssueKey = "null"
  /\ resp.reply = <<"X">>
  /\ sessions[resp.sid] # 0
  /\ Last(Stored(resp.sid)) = AssistantMessage(<<"X">>)

====
